---- MODULE Spec2Model ----
(***************************************************************************)
(* Model of rhiza_tools/commands/bump.py: the version bump command that    *)
(* reads project.version from pyproject.toml, computes or validates the    *)
(* new version, and writes it back with a verifying re-read.               *)
(*                                                                         *)
(* Strings are sequences of one-character strings, so that stripping a     *)
(* leading 'v', parsing a semantic version and formatting one are computed *)
(* character by character.                                                 *)
(***************************************************************************)
EXTENDS Integers, Sequences, FiniteSets, TLC

(***************************************************************************)
(* Bounds of the model.                                                    *)
(***************************************************************************)
\* number of successive invocations of the command on the same manifest
MaxInvocations == 2
\* length of the arbitrary (junk) argument strings that are enumerated
MaxJunkLen == 2

(***************************************************************************)
(* Characters and decimal numbers (Python str(int) and int(str)).          *)
(***************************************************************************)
DigitSeq == <<"0", "1", "2", "3", "4", "5", "6", "7", "8", "9">>

Digits == {DigitSeq[i] : i \in 1..Len(DigitSeq)}

Letters == {"a", "b", "c", "e", "h", "i", "j", "m", "n", "o", "p", "r", "s", "t", "v"}

DigitChar(n) == DigitSeq[n + 1]

DigitVal(c) == CHOOSE i \in 0..9 : DigitSeq[i + 1] = c

RECURSIVE IntToStr(_)
IntToStr(n) ==
    IF n < 10 THEN <<DigitChar(n)>>
    ELSE IntToStr(n \div 10) \o <<DigitChar(n % 10)>>

RECURSIVE StrToInt(_)
StrToInt(s) ==
    IF Len(s) = 0 THEN 0
    ELSE 10 * StrToInt(SubSeq(s, 1, Len(s) - 1)) + DigitVal(s[Len(s)])

AllIn(s, S) == \A i \in 1..Len(s) : s[i] \in S

\* position of the first occurrence of c in s, 0 when there is none
FirstIndex(s, c) ==
    IF \E i \in 1..Len(s) : s[i] = c
    THEN CHOOSE i \in 1..Len(s) : s[i] = c /\ \A j \in 1..(i - 1) : s[j] # c
    ELSE 0

\* s.split(c): the pieces of s between the occurrences of c
RECURSIVE Split(_, _)
Split(s, c) ==
    LET i == FirstIndex(s, c)
    IN  IF i = 0 THEN <<s>>
        ELSE <<SubSeq(s, 1, i - 1)>> \o Split(SubSeq(s, i + 1, Len(s)), c)

StartsWith(s, p) == Len(s) >= Len(p) /\ SubSeq(s, 1, Len(p)) = p

(***************************************************************************)
(* semver.Version: the grammar MAJOR.MINOR.PATCH[-PRERELEASE][+BUILD]      *)
(* accepted by Version.parse, the bump methods and str().                  *)
(***************************************************************************)
\* 0 | [1-9][0-9]*
IsNumericId(s) ==
    /\ Len(s) > 0
    /\ AllIn(s, Digits)
    /\ (Len(s) > 1 => s[1] # "0")

\* a pre-release identifier: numeric without leading zero, or alphanumeric
IsPreId(s) ==
    /\ Len(s) > 0
    /\ AllIn(s, Digits \cup Letters \cup {"-"})
    /\ (AllIn(s, Digits) => IsNumericId(s))

IsBuildId(s) ==
    /\ Len(s) > 0
    /\ AllIn(s, Digits \cup Letters \cup {"-"})

\* the text before the first '+', and the text after it
BeforePlus(s) ==
    LET i == FirstIndex(s, "+") IN IF i = 0 THEN s ELSE SubSeq(s, 1, i - 1)

HasBuild(s) == FirstIndex(s, "+") # 0

BuildPart(s) == SubSeq(s, FirstIndex(s, "+") + 1, Len(s))

CorePart(s) ==
    LET t == BeforePlus(s)
        i == FirstIndex(t, "-")
    IN  IF i = 0 THEN t ELSE SubSeq(t, 1, i - 1)

HasPre(s) == FirstIndex(BeforePlus(s), "-") # 0

PrePart(s) ==
    LET t == BeforePlus(s) IN SubSeq(t, FirstIndex(t, "-") + 1, Len(t))

\* Version.parse(s) does not raise ValueError
IsValidSemver(s) ==
    LET core == Split(CorePart(s), ".")
    IN  /\ Len(core) = 3
        /\ \A i \in 1..3 : IsNumericId(core[i])
        /\ HasPre(s) =>
              LET ids == Split(PrePart(s), ".")
              IN  \A i \in 1..Len(ids) : IsPreId(ids[i])
        /\ HasBuild(s) =>
              LET ids == Split(BuildPart(s), ".")
              IN  \A i \in 1..Len(ids) : IsBuildId(ids[i])

\* Version.parse(s) for a valid s; an absent pre-release or build is <<>>
ParseVersion(s) ==
    LET core == Split(CorePart(s), ".")
    IN  [major |-> StrToInt(core[1]),
         minor |-> StrToInt(core[2]),
         patch |-> StrToInt(core[3]),
         prerelease |-> IF HasPre(s) THEN PrePart(s) ELSE <<>>,
         build |-> IF HasBuild(s) THEN BuildPart(s) ELSE <<>>]

\* str(Version)
VersionStr(v) ==
    IntToStr(v.major) \o <<".">> \o IntToStr(v.minor) \o <<".">> \o IntToStr(v.patch)
    \o (IF v.prerelease = <<>> THEN <<>> ELSE <<"-">> \o v.prerelease)
    \o (IF v.build = <<>> THEN <<>> ELSE <<"+">> \o v.build)

bump_patch(v) ==
    [major |-> v.major, minor |-> v.minor, patch |-> v.patch + 1,
     prerelease |-> <<>>, build |-> <<>>]

\* a minor bump that forgets to reset the patch number
bump_minor_keeps_patch(v) ==
    [major |-> v.major, minor |-> v.minor + 1, patch |-> v.patch,
     prerelease |-> <<>>, build |-> <<>>]

bump_minor(v) ==
    [major |-> v.major, minor |-> v.minor + 1, patch |-> 0,
     prerelease |-> <<>>, build |-> <<>>]

bump_major(v) ==
    [major |-> v.major + 1, minor |-> 0, patch |-> 0,
     prerelease |-> <<>>, build |-> <<>>]

(***************************************************************************)
(* pyproject.toml on disk, and tomlkit's parse and dumps.                  *)
(*                                                                         *)
(* A file is absent, malformed text, or a TOML document.  Of a document    *)
(* the model keeps the token written after `version =` in [project] (<<>> *)
(* when the key is missing) and, in rest, everything else of the document  *)
(* in order.  A version that reaches dumps is a valid semantic version, so *)
(* no character of it needs a TOML escape.                                 *)
(***************************************************************************)
DQ == "\""

SQ == "'"

File(kind, token, rest) == [kind |-> kind, token |-> token, rest |-> rest]

AbsentFile == File("absent", <<>>, <<>>)

MalformedFile == File("malformed", <<>>, <<>>)

StrVal(s) == [t |-> "str", s |-> s]

MissingVal == [t |-> "missing", s |-> <<>>]

\* the Python value of a TOML value token: a basic or literal string, or a
\* bare number
TokenValue(tok) ==
    IF tok = <<>> THEN MissingVal
    ELSE IF Len(tok) >= 2 /\ tok[1] \in {DQ, SQ} /\ tok[Len(tok)] = tok[1]
         THEN StrVal(SubSeq(tok, 2, Len(tok) - 1))
         ELSE [t |-> "int", s |-> tok]

\* a writer that leaves the quotes of a string out
ValueTokenBare(val) == val.s

\* the token tomlkit writes for a Python value: a str becomes a basic string
ValueToken(val) ==
    IF val.t = "str" THEN <<DQ>> \o val.s \o <<DQ>>
    ELSE val.s

\* tomlkit.parse(f.read()) of a document
TomlParse(file) == [version |-> TokenValue(file.token), rest |-> file.rest]

\* tomlkit.dumps(data)
TomlDumps(d) == File("doc", ValueToken(d.version), d.rest)

\* get_current_version(): ok is FALSE when the function logs and exits 1
GetCurrentVersion(file) ==
    IF file.kind # "doc" THEN [ok |-> FALSE, val |-> MissingVal]
    ELSE LET d == TomlParse(file)
         IN  IF d.version.t = "missing" THEN [ok |-> FALSE, val |-> MissingVal]
             ELSE [ok |-> TRUE, val |-> d.version]

\* an update that builds a new document holding the version alone
SetVersionInFreshDocument(d, new_version) ==
    [version |-> StrVal(new_version), rest |-> <<>>]

\* data["project"]["version"] = new_version
SetVersion(d, new_version) == [d EXCEPT !.version = StrVal(new_version)]

(***************************************************************************)
(* The command line.                                                       *)
(***************************************************************************)
Patch == <<"p", "a", "t", "c", "h">>

Minor == <<"m", "i", "n", "o", "r">>

Major == <<"m", "a", "j", "o", "r">>

Keywords == {Patch, Minor, Major}

\* an explicit version whose leading 'v' is kept
StripNothing(s) == s

\* if version.startswith("v"): version = version[1:]
StripV(s) == IF StartsWith(s, <<"v">>) THEN SubSeq(s, 2, Len(s)) ELSE s

\* the target of a given argument: the bump type and the explicit version
TargetOfArgument(arg) ==
    IF arg \in Keywords
    THEN [bump_type |-> arg, new_version_str |-> <<>>]
    ELSE [bump_type |-> <<>>, new_version_str |-> StripV(arg)]

\* a choice offered by the prompt: "Patch (1.0.0 -> 1.0.1)"
ChoiceLabel(name, cur, nxt) ==
    name \o <<" ", "(">> \o cur \o <<" ", "-", ">", " ">> \o nxt \o <<")">>

Choices(cur) ==
    LET v == ParseVersion(cur)
    IN  {ChoiceLabel(<<"P", "a", "t", "c", "h">>, cur, VersionStr(bump_patch(v))),
         ChoiceLabel(<<"M", "i", "n", "o", "r">>, cur, VersionStr(bump_minor(v))),
         ChoiceLabel(<<"M", "a", "j", "o", "r">>, cur, VersionStr(bump_major(v)))}

\* the bump type of the chosen label
BumpTypeOfChoice(choice) ==
    IF StartsWith(choice, <<"P", "a", "t", "c", "h">>) THEN Patch
    ELSE IF StartsWith(choice, <<"M", "i", "n", "o", "r">>) THEN Minor
    ELSE IF StartsWith(choice, <<"M", "a", "j", "o", "r">>) THEN Major
    ELSE <<>>

\* the new version of a keyword bump
BumpedVersionStr(cur, kind) ==
    LET v == ParseVersion(cur)
    IN  IF kind = Patch THEN VersionStr(bump_patch(v))
        ELSE IF kind = Minor THEN VersionStr(bump_minor(v))
        ELSE VersionStr(bump_major(v))

\* an explicit version that is never validated
ExplicitAcceptedUnchecked(s) == TRUE

\* try: Version.parse(new_version_str) except ValueError: exit 1
ExplicitAccepted(s) == IsValidSemver(s)

\* a dry-run flag that is never looked at
SkipsChangesNever(flag) == FALSE

\* if dry_run: return
SkipsChanges(flag) == flag

(***************************************************************************)
(* Inputs: the manifests the command may find and the arguments it may be  *)
(* given.                                                                  *)
(***************************************************************************)
Ver(major, minor, patch, pre, build) ==
    [major |-> major, minor |-> minor, patch |-> patch,
     prerelease |-> pre, build |-> build]

InitNums == {0, 9}

ValidVersionStrs ==
    {VersionStr(Ver(a, b, c, p, <<>>)) :
        a \in InitNums, b \in InitNums, c \in InitNums, p \in {<<>>, <<"b">>}}
    \cup {VersionStr(Ver(0, 1, 0, <<>>, <<>>)),
          VersionStr(Ver(1, 9, 9, <<>>, <<>>)),
          VersionStr(Ver(2, 0, 0, <<"b", "e", "t", "a">>, <<>>)),
          VersionStr(Ver(1, 0, 0, <<>>, <<>>)),
          VersionStr(Ver(1, 2, 3, <<>>, <<"b">>)),
          VersionStr(Ver(1, 0, 0, <<"b", ".", "1">>, <<"b">>))}

InvalidVersionStrs ==
    {<<>>, <<"1", ".", "0">>, <<"v", "1", ".", "0", ".", "0">>,
     <<"0", "1", ".", "0", ".", "0">>}

\* everything of the document but the version value
SomeRest == <<"name", "dependencies", "tool">>

InitFiles ==
    {AbsentFile, MalformedFile}
    \cup {File("doc", ValueToken(StrVal(s)), SomeRest) :
            s \in ValidVersionStrs \cup InvalidVersionStrs}
    \cup {File("doc", <<SQ, "1", ".", "0", ".", "0", SQ>>, SomeRest),
          File("doc", <<"1">>, SomeRest),
          File("doc", <<>>, SomeRest),
          File("doc", <<>>, <<>>)}

JunkChars == {"v", "1", "."}

RECURSIVE StringsUpTo(_)
StringsUpTo(n) ==
    IF n = 0 THEN {<<>>}
    ELSE LET S == StringsUpTo(n - 1)
         IN  S \cup {Append(s, c) : s \in S, c \in JunkChars}

ExplicitStrs ==
    {VersionStr(Ver(1, 5, 0, <<>>, <<>>)),
     VersionStr(Ver(1, 0, 0, <<>>, <<>>)),
     VersionStr(Ver(2, 0, 0, <<"b">>, <<>>)),
     VersionStr(Ver(0, 1, 0, <<>>, <<"b">>))}

NearMissStrs ==
    {<<"1", ".", "0">>,
     <<"0", "1", ".", "0", ".", "0">>,
     <<"1", ".", "0", ".", "0", ".", "0">>,
     <<"1", ".", "0", ".", "0", "-">>,
     <<"1", ".", "0", ".", "0", "-", "0", "1">>,
     <<"1", ".", "0", ".", "0", "+">>,
     <<"n", "o", "t", "-", "a", "-", "v", "e", "r", "s", "i", "o", "n">>}

ArgBodies == Keywords \cup ExplicitStrs \cup NearMissStrs \cup StringsUpTo(MaxJunkLen)

\* the arguments, bare and with 'v' in front, and the keywords and versions
\* with a second 'v'; <<>> is the absent argument (None and "" are both falsy)
Args ==
    {p \o b : p \in {<<>>, <<"v">>}, b \in ArgBodies}
    \cup {<<"v", "v">> \o b : b \in Keywords \cup ExplicitStrs}

(***************************************************************************)
(* The state of the command and of the file system.                        *)
(***************************************************************************)
VARIABLES
    disk,                 \* pyproject.toml
    pc,                   \* the statement bump_command is at
    version,              \* parameter version
    dry_run,              \* parameter dry_run
    current_version_str,  \* local
    bump_type,            \* local, <<>> is ""
    new_version_str,      \* local
    data,                 \* update_version's parsed document
    exit_code,            \* the status of the ended invocation, -1 while running
    outcome,              \* how the invocation ended, "Running" while running
    disk0,                \* history: pyproject.toml when the invocation began
    steps,                \* history: the steps of this invocation so far
    faulted,              \* history: a write step has failed since Init
    startedValid,         \* history: the first manifest held a valid version
    invocations           \* history: the number of invocations so far

vars ==
    <<disk, pc, version, dry_run, current_version_str, bump_type,
      new_version_str, data, exit_code, outcome, disk0, steps, faulted,
      startedValid, invocations>>

params == <<version, dry_run>>

history == <<disk0, faulted, startedValid, invocations>>

NoData == [version |-> MissingVal, rest |-> <<>>]

\* the file's project.version is a str that is a valid semantic version
HasValidVersion(file) ==
    LET r == GetCurrentVersion(file)
    IN  r.ok /\ r.val.t = "str" /\ IsValidSemver(r.val.s)

Init ==
    /\ disk \in InitFiles
    /\ pc = "Start"
    /\ version \in Args
    /\ dry_run \in BOOLEAN
    /\ current_version_str = <<>>
    /\ bump_type = <<>>
    /\ new_version_str = <<>>
    /\ data = NoData
    /\ exit_code = -1
    /\ outcome = "Running"
    /\ disk0 = disk
    /\ steps = {}
    /\ faulted = FALSE
    /\ startedValid = HasValidVersion(disk)
    /\ invocations = 1

\* an exit that loses the status and always reports 0
FinishWithZero(code, how) ==
    /\ pc' = "Exit"
    /\ exit_code' = 0
    /\ outcome' = how

\* raise typer.Exit(code), return, or an uncaught exception
Finish(code, how) ==
    /\ pc' = "Exit"
    /\ exit_code' = code
    /\ outcome' = how

Goto(next) ==
    /\ pc' = next
    /\ UNCHANGED <<exit_code, outcome>>

Did(step) == steps' = steps \cup {step}

(***************************************************************************)
(* bump_command, statement by statement.                                   *)
(***************************************************************************)
\* if not Path("pyproject.toml").exists(): exit 1
CheckExists ==
    /\ pc = "Start"
    /\ Did("exists")
    /\ IF disk.kind = "absent"
       THEN Finish(1, "ManifestNotFound")
       ELSE Goto("ReadCurrent")
    /\ UNCHANGED <<disk, params, current_version_str, bump_type,
                   new_version_str, data, history>>

\* a read that does not check that the current version is a semantic version
ReadProblemUnparsed(file) ==
    LET r == GetCurrentVersion(file)
    IN  IF ~r.ok THEN "ReadFailed"
        ELSE IF r.val.t # "str" THEN "TypeError"
        ELSE ""

\* how reading the current version ends: "" when it is read and valid
ReadProblem(file) ==
    LET r == GetCurrentVersion(file)
    IN  IF ~r.ok THEN "ReadFailed"
        ELSE IF r.val.t # "str" THEN "TypeError"
        ELSE IF ~IsValidSemver(r.val.s) THEN "VersionParseError"
        ELSE ""

\* current_version_str = get_current_version(); Version.parse(...)
\* (a version that is not a str makes Version.parse raise TypeError, which
\* nothing catches: the process ends with status 1)
ReadCurrent ==
    /\ pc = "ReadCurrent"
    /\ Did("read")
    /\ LET r == GetCurrentVersion(disk)
       IN  /\ current_version_str' = IF r.ok /\ r.val.t = "str" THEN r.val.s ELSE <<>>
           /\ IF ReadProblem(disk) # ""
              THEN Finish(1, ReadProblem(disk))
              ELSE Goto("DetermineTarget")
    /\ UNCHANGED <<disk, params, bump_type, new_version_str, data, history>>

\* if version: a keyword or an explicit version
DetermineFromArgument ==
    /\ pc = "DetermineTarget"
    /\ version # <<>>
    /\ Did("argument")
    /\ bump_type' = TargetOfArgument(version).bump_type
    /\ new_version_str' = TargetOfArgument(version).new_version_str
    /\ Goto("ValidateTarget")
    /\ UNCHANGED <<disk, params, current_version_str, data, history>>

\* else: questionary.select(...).ask(), None when the user cancels
Prompt ==
    /\ pc = "DetermineTarget"
    /\ version = <<>>
    /\ Did("prompt")
    /\ \E choice \in Choices(current_version_str) \cup {<<>>} :
          IF choice = <<>>
          THEN /\ Finish(0, "Cancelled")
               /\ UNCHANGED bump_type
          ELSE /\ bump_type' = BumpTypeOfChoice(choice)
               /\ Goto("ValidateTarget")
    /\ UNCHANGED <<disk, params, current_version_str, new_version_str, data,
                   history>>

\* if bump_type: compute the bumped version; else: validate the explicit one
ValidateTarget ==
    /\ pc = "ValidateTarget"
    /\ IF bump_type # <<>>
       THEN /\ Did("compute")
            /\ new_version_str' = BumpedVersionStr(current_version_str, bump_type)
            /\ Goto("DryRunCheck")
       ELSE /\ Did("validate")
            /\ UNCHANGED new_version_str
            /\ IF ExplicitAccepted(new_version_str)
               THEN Goto("DryRunCheck")
               ELSE Finish(1, "InvalidVersionFormat")
    /\ UNCHANGED <<disk, params, current_version_str, bump_type, data, history>>

\* if dry_run: return
DryRunCheck ==
    /\ pc = "DryRunCheck"
    /\ Did("dryrun")
    /\ IF SkipsChanges(dry_run)
       THEN Finish(0, "DryRunExit")
       ELSE Goto("UpdLoad")
    /\ UNCHANGED <<disk, params, current_version_str, bump_type,
                   new_version_str, data, history>>

(***************************************************************************)
(* update_version, statement by statement.  Opening the file for writing   *)
(* truncates it; the text is written afterwards.                           *)
(***************************************************************************)
\* the document update_version is about to write
UpdatedData(file, new_version) == SetVersion(TomlParse(file), new_version)

\* the file once open("pyproject.toml", "w") has returned
Truncated(file) == File("doc", <<>>, <<>>)

\* with open(..., "r"): data = tomlkit.parse(f.read());
\* data["project"]["version"] = new_version
UpdLoad ==
    /\ pc = "UpdLoad"
    /\ Did("write")
    /\ IF disk.kind = "doc"
       THEN /\ data' = UpdatedData(disk, new_version_str)
            /\ Goto("UpdOpen")
       ELSE /\ UNCHANGED data
            /\ Finish(1, "WriteFailure")
    /\ UNCHANGED <<disk, params, current_version_str, bump_type,
                   new_version_str, history>>

\* with open("pyproject.toml", "w") as f:
UpdOpen ==
    /\ pc = "UpdOpen"
    /\ disk' = Truncated(disk)
    /\ Goto("UpdWrite")
    /\ UNCHANGED <<params, current_version_str, bump_type, new_version_str,
                   data, steps, history>>

\* open(..., "w") raises (the file is not writable): except Exception, exit 1
UpdOpenFails ==
    /\ pc = "UpdOpen"
    /\ faulted' = TRUE
    /\ Finish(1, "WriteFailure")
    /\ UNCHANGED <<disk, params, current_version_str, bump_type,
                   new_version_str, data, steps, disk0, startedValid,
                   invocations>>

\* f.write(tomlkit.dumps(data)) and the close of the file
UpdWrite ==
    /\ pc = "UpdWrite"
    /\ disk' = TomlDumps(data)
    /\ Goto("Verify")
    /\ UNCHANGED <<params, current_version_str, bump_type, new_version_str,
                   data, steps, history>>

\* what a write that raises part-way may leave: nothing, text cut inside a
\* line, or the document cut after some of its lines
PartialFiles(file) ==
    {File("doc", <<>>, <<>>), MalformedFile}
    \cup {File("doc", file.token, SubSeq(file.rest, 1, n)) :
            n \in 0..(Len(file.rest) - 1)}

\* dumps, write or close raises (disk full, I/O error): except Exception, exit 1
UpdWriteFails ==
    /\ pc = "UpdWrite"
    /\ disk' \in PartialFiles(TomlDumps(data))
    /\ faulted' = TRUE
    /\ Finish(1, "WriteFailure")
    /\ UNCHANGED <<params, current_version_str, bump_type, new_version_str,
                   data, steps, disk0, startedValid, invocations>>

\* what the file may hold when the write returned but the stored text is
\* not the text written: the case the re-read of bump_command looks for
CorruptFiles(file) ==
    {MalformedFile,
     File("doc", <<DQ>> \o SubSeq(file.token, 2, Len(file.token) - 2) \o <<DQ>>,
          file.rest)}

UpdWriteCorrupts ==
    /\ pc = "UpdWrite"
    /\ disk' \in CorruptFiles(TomlDumps(data))
    /\ faulted' = TRUE
    /\ Goto("Verify")
    /\ UNCHANGED <<params, current_version_str, bump_type, new_version_str,
                   data, steps, disk0, startedValid, invocations>>

\* a verification that accepts whatever it reads back
VerifiedAlways(val, new_version) == TRUE

\* the re-read agrees with the version written
Verified(val, new_version) == val = StrVal(new_version)

\* updated_version = get_current_version(); if updated_version != new: exit 1
Verify ==
    /\ pc = "Verify"
    /\ Did("verify")
    /\ LET r == GetCurrentVersion(disk)
       IN  IF ~r.ok THEN Finish(1, "ReadFailed")
           ELSE IF ~Verified(r.val, new_version_str)
                THEN Finish(1, "VerificationFailed")
                ELSE Finish(0, "Done")
    /\ UNCHANGED <<disk, params, current_version_str, bump_type,
                   new_version_str, data, history>>

\* the command is run again on the manifest the last run left
Invoke ==
    /\ pc = "Exit"
    /\ invocations < MaxInvocations
    /\ invocations' = invocations + 1
    /\ version' \in Args
    /\ dry_run' \in BOOLEAN
    /\ pc' = "Start"
    /\ current_version_str' = <<>>
    /\ bump_type' = <<>>
    /\ new_version_str' = <<>>
    /\ data' = NoData
    /\ exit_code' = -1
    /\ outcome' = "Running"
    /\ disk0' = disk
    /\ steps' = {}
    /\ UNCHANGED <<disk, faulted, startedValid>>

Next ==
    \/ CheckExists
    \/ ReadCurrent
    \/ DetermineFromArgument
    \/ Prompt
    \/ ValidateTarget
    \/ DryRunCheck
    \/ UpdLoad
    \/ UpdOpen
    \/ UpdOpenFails
    \/ UpdWrite
    \/ UpdWriteFails
    \/ UpdWriteCorrupts
    \/ Verify
    \/ Invoke

Spec == Init /\ [][Next]_vars

(***************************************************************************)
(* bump_command as a function of its argument, the manifest and dry_run,   *)
(* when no write step fails: how it ends, the new version, and the         *)
(* manifest it leaves.                                                     *)
(***************************************************************************)
Result(how, new, file) == [outcome |-> how, new_version |-> new, disk |-> file]

RunCommand(arg, file, dry) ==
    IF file.kind = "absent" THEN Result("ManifestNotFound", <<>>, file)
    ELSE IF ReadProblem(file) # "" THEN Result(ReadProblem(file), <<>>, file)
    ELSE LET cur == GetCurrentVersion(file).val.s
             t == TargetOfArgument(arg)
             new == IF t.bump_type # <<>>
                    THEN BumpedVersionStr(cur, t.bump_type)
                    ELSE t.new_version_str
             written == TomlDumps(UpdatedData(file, new))
         IN  IF t.bump_type = <<>> /\ ~ExplicitAccepted(new)
             THEN Result("InvalidVersionFormat", <<>>, file)
             ELSE IF SkipsChanges(dry) THEN Result("DryRunExit", new, file)
             ELSE IF ~GetCurrentVersion(written).ok
                  THEN Result("ReadFailed", <<>>, written)
             ELSE IF ~Verified(GetCurrentVersion(written).val, new)
                  THEN Result("VerificationFailed", <<>>, written)
             ELSE Result("Done", new, written)

\* the same, of the invocation that has ended in the current state
Observed ==
    Result(outcome,
           IF exit_code = 0 THEN new_version_str ELSE <<>>,
           disk)

(***************************************************************************)
(* Properties.                                                             *)
(***************************************************************************)
Ended == pc = "Exit"

SuccessOutcomes == {"Done", "DryRunExit", "Cancelled"}

ErrorOutcomes ==
    {"ManifestNotFound", "ReadFailed", "TypeError", "VersionParseError",
     "InvalidVersionFormat", "WriteFailure", "VerificationFailed"}

\* C1: once a keyword bump (given as argument or chosen at the prompt) has
\* been computed, the new version is, for patch, (major, minor, patch+1);
\* for minor, (major, minor+1, 0); for major, (major+1, 0, 0); and it
\* carries neither pre-release nor build metadata.  A keyword argument
\* selects the bump of its name.
C1_KeywordBump ==
    "compute" \in steps =>
        LET c == ParseVersion(current_version_str)
            n == ParseVersion(new_version_str)
        IN  /\ IsValidSemver(new_version_str)
            /\ bump_type \in Keywords
            /\ version \in Keywords => bump_type = version
            /\ n.prerelease = <<>>
            /\ n.build = <<>>
            /\ bump_type = Patch =>
                  <<n.major, n.minor, n.patch>> = <<c.major, c.minor, c.patch + 1>>
            /\ bump_type = Minor =>
                  <<n.major, n.minor, n.patch>> = <<c.major, c.minor + 1, 0>>
            /\ bump_type = Major =>
                  <<n.major, n.minor, n.patch>> = <<c.major + 1, 0, 0>>

\* C1 witness: 1.9.9 bumped by the keyword minor gives 1.10.0
C1_Witness ==
    /\ "compute" \in steps
    /\ version = Minor
    /\ current_version_str = <<"1", ".", "9", ".", "9">>
    /\ new_version_str = <<"1", ".", "1", "0", ".", "0">>

\* C2: in every state of an invocation the manifest on disk is either the
\* complete original document or the complete updated document.
C2_AtomicRewrite ==
    \/ disk = disk0
    \/ /\ "write" \in steps
       /\ disk = TomlDumps(UpdatedData(disk0, new_version_str))

\* C3: with dry_run set, whatever the request and the outcome, the manifest
\* stays as it was when the invocation began and neither the write step nor
\* the verify step is executed.
C3_DryRunFrame ==
    dry_run =>
        /\ disk = disk0
        /\ steps \cap {"write", "verify"} = {}
        /\ pc \notin {"UpdLoad", "UpdOpen", "UpdWrite", "Verify"}
        /\ outcome # "Done"

\* C3 witness: a dry run of an explicit version has ended
C3_Witness ==
    /\ dry_run
    /\ Ended
    /\ outcome = "DryRunExit"
    /\ "validate" \in steps

\* C4: an invocation ends in Done (exit 0) only after the write and the
\* verifying re-read, with the manifest holding exactly the new version as
\* project.version; when the re-read value differs the invocation ends in
\* VerificationFailed with exit 1.
C4_VerifiedSuccess ==
    Ended =>
        /\ outcome = "Done" =>
              /\ exit_code = 0
              /\ ~dry_run
              /\ {"write", "verify"} \subseteq steps
              /\ disk.kind = "doc"
              /\ TokenValue(disk.token) = StrVal(new_version_str)
        /\ ("verify" \in steps /\ disk.kind = "doc" /\ disk.token # <<>>
              /\ TokenValue(disk.token) # StrVal(new_version_str)) =>
              /\ outcome = "VerificationFailed"
              /\ exit_code = 1

\* C4 witness: the re-read found another version than the one written
C4_Witness ==
    /\ Ended
    /\ outcome = "VerificationFailed"
    /\ disk.kind = "doc"
    /\ TokenValue(disk.token).t = "str"

\* C5: after a successful write everything of the document other than the
\* project.version value is as it was when the invocation began.
C5_OnlyVersionChanges ==
    (outcome = "Done" \/ (pc = "Verify" /\ ~faulted)) =>
        /\ disk.kind = "doc"
        /\ disk.rest = disk0.rest
        /\ TokenValue(disk.token) = StrVal(new_version_str)

\* C5 witness: a bump has ended in Done on a document with other content
C5_Witness ==
    /\ Ended
    /\ outcome = "Done"
    /\ disk # disk0
    /\ disk0.rest # <<>>

\* an argument is given (None and "" both count as no argument), it is not
\* a keyword and, less one leading 'v', it is not a semantic version
InvalidExplicit(arg) ==
    /\ arg # <<>>
    /\ arg \notin Keywords
    /\ ~IsValidSemver(IF StartsWith(arg, <<"v">>) THEN Tail(arg) ELSE arg)

\* C6 as stated: an argument that is no keyword and, less one leading 'v',
\* no valid semantic version makes the invocation end in
\* InvalidVersionFormat with exit 1 and the manifest unchanged.
C6_Original ==
    (Ended /\ InvalidExplicit(version)) =>
        /\ outcome = "InvalidVersionFormat"
        /\ exit_code = 1
        /\ disk = disk0

\* C6 amended: a non-empty argument of that kind always ends the invocation
\* with exit 1, the manifest unchanged and no write step executed, with or
\* without dry_run; the error is InvalidVersionFormat when the current
\* version was read, and the error of that read otherwise.
C6_InvalidExplicit ==
    InvalidExplicit(version) =>
        /\ disk = disk0
        /\ "write" \notin steps
        /\ pc \notin {"DryRunCheck", "UpdLoad", "UpdOpen", "UpdWrite", "Verify"}
        /\ Ended =>
              /\ exit_code = 1
              /\ HasValidVersion(disk0) => outcome = "InvalidVersionFormat"
              /\ ~HasValidVersion(disk0) =>
                    outcome \in {"ManifestNotFound", "ReadFailed", "TypeError",
                                 "VersionParseError"}

\* C6 witness: a dry run given not-a-version has ended in InvalidVersionFormat
C6_Witness ==
    /\ Ended
    /\ dry_run
    /\ version = <<"n", "o", "t", "-", "a", "-", "v", "e", "r", "s", "i", "o", "n">>
    /\ outcome = "InvalidVersionFormat"

\* s is given as an explicit version: not empty and not a keyword
IsExplicit(s) == s # <<>> /\ s \notin Keywords

\* C7 as stated: for every explicit version string s, the invocation given
\* 'v' followed by s ends as the invocation given s does on the same
\* manifest: same outcome, same new version, same final manifest.
C7_Original ==
    (Ended /\ ~faulted /\ StartsWith(version, <<"v">>) /\ IsExplicit(Tail(version))) =>
        Observed = RunCommand(Tail(version), disk0, dry_run)

\* C7 amended: the same, for every explicit version string s that does not
\* itself begin with 'v'.
C7_LeadingVIgnored ==
    (/\ Ended
     /\ ~faulted
     /\ StartsWith(version, <<"v">>)
     /\ IsExplicit(Tail(version))
     /\ ~StartsWith(Tail(version), <<"v">>)) =>
        Observed = RunCommand(Tail(version), disk0, dry_run)

\* C7 witness: v1.5.0 has been written as 1.5.0
C7_Witness ==
    /\ Ended
    /\ ~faulted
    /\ version = <<"v", "1", ".", "5", ".", "0">>
    /\ outcome = "Done"
    /\ TokenValue(disk.token) = StrVal(<<"1", ".", "5", ".", "0">>)

\* C8: when the manifest is missing, unreadable, or holds no valid semantic
\* version, the invocation executes nothing beyond the existence check and
\* the read (no prompt, no look at the argument, no validation, no write),
\* leaves the manifest alone and ends with exit 1, whatever the request.
C8_ReadGates ==
    ~HasValidVersion(disk0) =>
        /\ steps \subseteq {"exists", "read"}
        /\ pc \in {"Start", "ReadCurrent", "Exit"}
        /\ disk = disk0
        /\ bump_type = <<>>
        /\ new_version_str = <<>>
        /\ Ended => exit_code = 1 /\ outcome \in ErrorOutcomes

\* C8 witness: an explicit version was given, and the invocation ended on
\* the invalid current version
C8_Witness ==
    /\ Ended
    /\ version = <<"1", ".", "5", ".", "0">>
    /\ outcome = "VersionParseError"
    /\ disk.kind = "doc"

\* the statements of bump_command in the order of the code
Rank(p) ==
    CASE p = "Start" -> 0
      [] p = "ReadCurrent" -> 1
      [] p = "DetermineTarget" -> 2
      [] p = "ValidateTarget" -> 3
      [] p = "DryRunCheck" -> 4
      [] p = "UpdLoad" -> 5
      [] p = "UpdOpen" -> 6
      [] p = "UpdWrite" -> 7
      [] p = "Verify" -> 8
      [] p = "Exit" -> 9

C9_Status ==
    /\ Ended <=> exit_code \in {0, 1}
    /\ ~Ended => exit_code = -1 /\ outcome = "Running"
    /\ Ended => outcome \in SuccessOutcomes \cup ErrorOutcomes
    /\ Ended => (exit_code = 0 <=> outcome \in SuccessOutcomes)
    /\ Ended => (exit_code = 1 <=> outcome \in ErrorOutcomes)
    /\ outcome = "Cancelled" => disk = disk0 /\ steps = {"exists", "read", "prompt"}

C9_NoRetry ==
    /\ ~Ended => Rank(pc') > Rank(pc)
    /\ Ended => (pc' = "Start" /\ invocations' = invocations + 1)

\* C9: every statement moves the invocation forward in the code, nothing
\* is executed twice, and the terminal state is left only by the next
\* invocation; the exit status is 0 exactly for Done, DryRunExit and
\* Cancelled and 1 for every error; a cancelled prompt leaves the manifest
\* unchanged.
C9_Termination ==
    /\ []C9_Status
    /\ [][C9_NoRetry]_vars

\* C9 witness: the prompt was cancelled
C9_Witness ==
    /\ Ended
    /\ outcome = "Cancelled"
    /\ exit_code = 0

\* C10: over invocations without a failed write step, starting from a
\* manifest with a valid semantic version, the manifest holds a valid
\* semantic version after every invocation and differs from the one the
\* invocation began with only when the invocation ended in Done.
C10_VersionStaysValid ==
    (startedValid /\ ~faulted /\ Ended) =>
        /\ HasValidVersion(disk)
        /\ outcome # "Done" => disk = disk0

\* C10 witness: the second invocation in a row has changed the version
C10_Witness ==
    /\ startedValid
    /\ ~faulted
    /\ Ended
    /\ invocations = 2
    /\ outcome = "Done"
    /\ disk # disk0
    /\ HasValidVersion(disk)

====
